---------------------------- MODULE Spec2Model ----------------------------
(***************************************************************************)
(* Faculty appraisal dashboard: the HOD appraisals GET handler             *)
(* (src/app/api/hod/appraisals/route.ts), the CSV export of the HOD and    *)
(* Dean appraisal tables and their evaluation-eligibility gate             *)
(* (src/unnamed/part_000, src/unnamed/part_001).                           *)
(*                                                                         *)
(* Conventions.  A string the code inspects character by character (a      *)
(* capacity label, a faculty name, a cycleId parameter) is a sequence of   *)
(* one-character strings.  A nullable number is <<>> (null / undefined) or *)
(* <<v>>.  Numbers the export prints with two decimals are integers        *)
(* counting hundredths.                                                    *)
(***************************************************************************)
EXTENDS Integers, Sequences, FiniteSets, TLC

VARIABLES
    pc,           \* position of the flow being exercised
    session,      \* getSession(): [email |-> STRING], "" when there is none
    query,        \* URL search parameters: [cycleId, status, search]
    appraisals,   \* rows of the appraisal table, with their evaluations
    response,     \* what GET answered: [status, appraisals]
    renormalized, \* the normalizer applied to its own output
    data,         \* the table component's data.appraisals
    rows,         \* the rows exportCSV hands to Papa.unparse
    subject,      \* the appraisal a table row renders: [status, endDate]
                  \* with endDate the end of its cycle
    now,          \* the wall clock, in ticks
    enabled,      \* <<v>>: what shouldEnableEvaluation returned to a render at
                  \* the instant now; <<>>: no render at this instant yet
    passwordHash, \* the passwordHash column of the user table, by email
    request,      \* the body of the password reset request last handled
    loading,      \* the table component's loading flag
    error,        \* the table component holds an error message
    fetches       \* the requests the table component has sent, in the order
                  \* sent: [params, settled]

vars == <<pc, session, query, appraisals, response, renormalized, data, rows,
          subject, now, enabled, passwordHash, request, loading, error, fetches>>

-----------------------------------------------------------------------------
(* Bounds of the model *)

MaxRatings == 2
MaxRatingPts == 2
MaxEvals == 2
MaxRows == 3
MaxFetches == 4
MaxCatPts == 1
MaxExportPts == 1
TicksPerDay == 2
LeadDays == 47
TrailDays == 2

-----------------------------------------------------------------------------
(* Strings as character sequences *)

UpperCase == <<"A", "B", "C", "D", "E", "F", "G", "H", "I", "J", "K", "L", "M",
               "N", "O", "P", "Q", "R", "S", "T", "U", "V", "W", "X", "Y", "Z">>
LowerCase == <<"a", "b", "c", "d", "e", "f", "g", "h", "i", "j", "k", "l", "m",
               "n", "o", "p", "q", "r", "s", "t", "u", "v", "w", "x", "y", "z">>

\* The case folding of the regular expressions' i flag and of Prisma's
\* mode: 'insensitive', on ASCII.
UpperToLower ==
    [c \in {UpperCase[i] : i \in 1..Len(UpperCase)} |->
        LowerCase[CHOOSE i \in 1..Len(UpperCase) : UpperCase[i] = c]]

FoldChar(c) == IF c \in DOMAIN UpperToLower THEN UpperToLower[c] ELSE c

Fold(s) == [i \in 1..Len(s) |-> FoldChar(s[i])]

\* s has needle as a contiguous substring.
Contains(s, needle) ==
    \E i \in 0..(Len(s) - Len(needle)) :
        \A j \in 1..Len(needle) : s[i + j] = needle[j]

\* /keyword/i.test(label)
RegexTestI(keyword, label) == Contains(Fold(label), Fold(keyword))

\* a ?? d
Coalesce(a, d) == IF a = <<>> THEN d ELSE a[1]

-----------------------------------------------------------------------------
(* The capacity normalizer of the GET handler *)

InstitutionalCommitment ==
    <<"I", "n", "s", "t", "i", "t", "u", "t", "i", "o", "n", "a", "l", " ",
      "C", "o", "m", "m", "i", "t", "m", "e", "n", "t">>
CollaborationTeamwork ==
    <<"C", "o", "l", "l", "a", "b", "o", "r", "a", "t", "i", "o", "n", " ",
      "&", " ", "T", "e", "a", "m", "w", "o", "r", "k">>
Professionalism ==
    <<"P", "r", "o", "f", "e", "s", "s", "i", "o", "n", "a", "l", "i", "s", "m">>
ClientService ==
    <<"C", "l", "i", "e", "n", "t", " ", "S", "e", "r", "v", "i", "c", "e">>
AchievingResults ==
    <<"A", "c", "h", "i", "e", "v", "i", "n", "g", " ", "R", "e", "s", "u", "l", "t", "s">>

\* Mutant: the fourth name renamed to one that no longer holds its keyword.
CanonicalCapacitiesRenamed ==
    <<InstitutionalCommitment, CollaborationTeamwork, Professionalism,
      <<"C", "u", "s", "t", "o", "m", "e", "r", " ", "S", "e", "r", "v", "i", "c", "e">>,
      AchievingResults>>

\* The capacity names the handler writes, in the order it writes them.
CanonicalCapacities ==
    <<InstitutionalCommitment, CollaborationTeamwork, Professionalism,
      ClientService, AchievingResults>>

\* Mutant: the fourth line tests the third line's expression (a copied line).
CapacityPatternsCopied ==
    <<<<"i", "n", "s", "t", "i", "t", "u", "t", "i", "o", "n", "a", "l">>,
      <<"c", "o", "l", "l", "a", "b", "o", "r", "a", "t", "i", "o", "n">>,
      <<"p", "r", "o", "f", "e", "s", "s", "i", "o", "n", "a", "l", "i", "s", "m">>,
      <<"p", "r", "o", "f", "e", "s", "s", "i", "o", "n", "a", "l", "i", "s", "m">>,
      <<"a", "c", "h", "i", "e", "v", "i", "n", "g">>>>

\* The regular expression of each of the five lines, in the same order.
CapacityPatterns ==
    <<<<"i", "n", "s", "t", "i", "t", "u", "t", "i", "o", "n", "a", "l">>,
      <<"c", "o", "l", "l", "a", "b", "o", "r", "a", "t", "i", "o", "n">>,
      <<"p", "r", "o", "f", "e", "s", "s", "i", "o", "n", "a", "l", "i", "s", "m">>,
      <<"c", "l", "i", "e", "n", "t">>,
      <<"a", "c", "h", "i", "e", "v", "i", "n", "g">>>>

\* Mutant: the last match instead of the first.
FindLastByPattern(ratings, pattern) ==
    LET hits == {i \in 1..Len(ratings) : RegexTestI(pattern, ratings[i].capacity)}
    IN  IF hits = {} THEN 0
        ELSE CHOOSE i \in hits : \A j \in hits : i >= j

\* behaviorRatings.find(b => /pattern/i.test(b.capacity)): the index of the
\* first match, 0 when find returns undefined.
FindByPattern(ratings, pattern) ==
    LET hits == {i \in 1..Len(ratings) : RegexTestI(pattern, ratings[i].capacity)}
    IN  IF hits = {} THEN 0
        ELSE CHOOSE i \in hits : \A j \in hits : i <= j

\* behaviorRatings.find(...)?.points ?? 0
PointsByPattern(ratings, pattern) ==
    LET i == FindByPattern(ratings, pattern)
    IN  IF i = 0 THEN 0 ELSE ratings[i].points

\* Mutant: only the capacities some rating matches are written.
NormalizedRatingsMatchedOnly(behaviorRatings) ==
    LET all == [k \in 1..Len(CanonicalCapacities) |->
                   [capacity |-> CanonicalCapacities[k],
                    points   |-> PointsByPattern(behaviorRatings, CapacityPatterns[k])]]
        Matched(e) == \E k \in 1..Len(CanonicalCapacities) :
                          /\ e.capacity = CanonicalCapacities[k]
                          /\ FindByPattern(behaviorRatings, CapacityPatterns[k]) # 0
    IN  SelectSeq(all, Matched)

NormalizedRatings(behaviorRatings) ==
    [k \in 1..Len(CanonicalCapacities) |->
        [capacity |-> CanonicalCapacities[k],
         points   |-> PointsByPattern(behaviorRatings, CapacityPatterns[k])]]

-----------------------------------------------------------------------------
(* The data layer the handler reads *)

\* The user table: email, role, departmentId (0: the user has none).
Users ==
    { [email |-> "hod@uob",   role |-> "HOD",        departmentId |-> 1],
      [email |-> "hod0@uob",  role |-> "HOD",        departmentId |-> 0],
      [email |-> "dean@uob",  role |-> "DEAN",       departmentId |-> 1],
      [email |-> "inst@uob",  role |-> "INSTRUCTOR", departmentId |-> 1] }

\* The passwordHash every user starts with.
StoredHashes == [m \in {u.email : u \in Users} |-> <<"stored">>]

\* No password reset request has been handled.
NoRequest == [email |-> <<>>, newPassword |-> <<>>]

\* The appraisal cycle table.
CyclesTable ==
    <<[id |-> 1, startDate |-> 1, isActive |-> FALSE],
      [id |-> 2, startDate |-> 2, isActive |-> TRUE]>>

\* The values of the EvaluationStatus enumeration.
EvaluationStatus == {"new", "in_progress", "complete", "sent"}

\* orderBy: { field: 'desc' } on rows whose field values are distinct.
RECURSIVE OrderByDesc(_, _)
OrderByDesc(s, field) ==
    IF s = <<>> THEN <<>>
    ELSE LET i == CHOOSE i \in 1..Len(s) :
                      \A j \in 1..Len(s) : s[i][field] >= s[j][field]
         IN  <<s[i]>> \o OrderByDesc(SubSeq(s, 1, i - 1) \o SubSeq(s, i + 1, Len(s)), field)

Digits == <<"0", "1", "2", "3", "4", "5", "6", "7", "8", "9">>
IsDigit(c) == \E d \in 1..Len(Digits) : Digits[d] = c
DigitValue(c) == (CHOOSE d \in 1..Len(Digits) : Digits[d] = c) - 1

\* parseInt(s) on a string without leading blanks or sign: the value of the
\* longest prefix of decimal digits, <<>> (NaN) when that prefix is empty.
RECURSIVE ParseDigits(_, _)
ParseDigits(s, acc) ==
    IF s = <<>> \/ ~IsDigit(Head(s)) THEN acc
    ELSE ParseDigits(Tail(s), 10 * acc + DigitValue(Head(s)))

ParseInt(s) ==
    IF s = <<>> \/ ~IsDigit(Head(s)) THEN <<>> ELSE <<ParseDigits(s, 0)>>

\* Prisma rejects (throws on) a where clause holding NaN for an Int column or a
\* string that is no member of the enumeration.
WhereClauseRejected(q) ==
    \/ q.cycleId # <<>> /\ ParseInt(q.cycleId) = <<>>
    \/ q.status # "" /\ q.status \notin EvaluationStatus

\* Mutant: the search filter replaces the faculty clause instead of adding
\* to it.
WhereMatchesSearchOnly(a, departmentId, q) ==
    /\ IF q.search # <<>>
       THEN Contains(Fold(a.faculty.name), Fold(q.search))
       ELSE a.faculty.departmentId = departmentId /\ a.faculty.role = "INSTRUCTOR"
    /\ (q.cycleId # <<>> => a.cycleId = ParseInt(q.cycleId)[1])
    /\ (q.status # "" => a.status = q.status)

\* The where clause built from the caller's department and the parameters.
WhereMatches(a, departmentId, q) ==
    /\ a.faculty.departmentId = departmentId
    /\ a.faculty.role = "INSTRUCTOR"
    /\ (q.cycleId # <<>> => a.cycleId = ParseInt(q.cycleId)[1])
    /\ (q.status # "" => a.status = q.status)
    /\ (q.search # <<>> => Contains(Fold(a.faculty.name), Fold(q.search)))

\* prisma.appraisal.findMany: the matching rows by updatedAt descending, each
\* with its evaluations by createdAt descending.
FindManyAppraisals(table, departmentId, q) ==
    LET Matches(a) == WhereMatches(a, departmentId, q)
        found == OrderByDesc(SelectSeq(table, Matches), "updatedAt")
    IN  [i \in 1..Len(found) |->
            [found[i] EXCEPT !.evaluations = OrderByDesc(@, "createdAt")]]

-----------------------------------------------------------------------------
(* The GET handler *)

\* Mutant: the most recently created evaluation is taken to be the last one.
LastEval(a) ==
    IF Len(a.evaluations) = 0 THEN <<>> ELSE <<a.evaluations[Len(a.evaluations)]>>

\* a.evaluations?.[0] ?? null, as <<>> or <<evaluation>>
LatestEval(a) ==
    IF Len(a.evaluations) = 0 THEN <<>> ELSE <<a.evaluations[1]>>

\* Mutant: an appraisal without evaluation gets null fields.
NullEvaluation(normalizedRatings) ==
    [totalScore           |-> <<>>,
     researchPts          |-> <<>>,
     universityServicePts |-> <<>>,
     communityServicePts  |-> <<>>,
     teachingQualityPts   |-> <<>>,
     behaviorRatings      |-> normalizedRatings]

\* The evaluation written for an appraisal that has none.
ZeroEvaluation(normalizedRatings) ==
    [totalScore           |-> <<0>>,
     researchPts          |-> <<0>>,
     universityServicePts |-> <<0>>,
     communityServicePts  |-> <<0>>,
     teachingQualityPts   |-> <<0>>,
     behaviorRatings      |-> normalizedRatings]

\* One element of appraisalsWithEvaluation.
AppraisalView(a) ==
    LET latestEval == LatestEval(a)
        behaviorRatings ==
            IF latestEval = <<>> THEN <<>> ELSE latestEval[1].behaviorRatings
        normalizedRatings == NormalizedRatings(behaviorRatings)
    IN  [id          |-> a.id,
         status      |-> a.status,
         cycleId     |-> a.cycleId,
         updatedAt   |-> a.updatedAt,
         totalScore  |-> a.totalScore,
         faculty     |-> a.faculty,
         evaluations |-> a.evaluations,
         evaluation  |->
            IF latestEval # <<>>
            THEN [totalScore           |-> latestEval[1].totalScore,
                  researchPts          |-> latestEval[1].researchPts,
                  universityServicePts |-> latestEval[1].universityServicePts,
                  communityServicePts  |-> latestEval[1].communityServicePts,
                  teachingQualityPts   |-> latestEval[1].teachingQualityPts,
                  behaviorRatings      |-> normalizedRatings]
            ELSE ZeroEvaluation(normalizedRatings)]

NoResponse == [status |-> 0, json |-> FALSE, appraisals |-> <<>>, cycles |-> <<>>]
\* Mutant: a caller without session, user or role is answered like one without
\* department.
UnauthorizedAsEmpty == [status |-> 200, json |-> TRUE, appraisals |-> <<>>, cycles |-> <<>>]

Unauthorized == [status |-> 401, json |-> FALSE, appraisals |-> <<>>, cycles |-> <<>>]
InternalServerError ==
    [status |-> 500, json |-> FALSE, appraisals |-> <<>>, cycles |-> <<>>]
Json(list, cycles) ==
    [status |-> 200, json |-> TRUE, appraisals |-> list, cycles |-> cycles]

\* Mutant: the views are answered in the reverse of the order found.
HandleReversed(sess, q, table) ==
    IF sess.email = "" THEN Unauthorized
    ELSE LET found == {u \in Users : u.email = sess.email}
         IN  IF found = {} THEN Unauthorized
             ELSE LET user == CHOOSE u \in found : TRUE
                  IN  IF user.role # "HOD" THEN Unauthorized
                      ELSE IF user.departmentId = 0 THEN Json(<<>>, <<>>)
                      ELSE IF WhereClauseRejected(q) THEN InternalServerError
                      ELSE LET rowsFound ==
                                   FindManyAppraisals(table, user.departmentId, q)
                           IN  Json([i \in 1..Len(rowsFound) |->
                                        AppraisalView(rowsFound[Len(rowsFound) + 1 - i])],
                                    OrderByDesc(CyclesTable, "startDate"))

\* The answer of GET to a request.
Handle(sess, q, table) ==
    IF sess.email = "" THEN Unauthorized
    ELSE LET found == {u \in Users : u.email = sess.email}
         IN  IF found = {} THEN Unauthorized
             ELSE LET user == CHOOSE u \in found : TRUE
                  IN  IF user.role # "HOD" THEN Unauthorized
                      ELSE IF user.departmentId = 0 THEN Json(<<>>, <<>>)
                      ELSE IF WhereClauseRejected(q) THEN InternalServerError
                      ELSE LET rowsFound ==
                                   FindManyAppraisals(table, user.departmentId, q)
                           IN  Json([i \in 1..Len(rowsFound) |->
                                        AppraisalView(rowsFound[i])],
                                    OrderByDesc(CyclesTable, "startDate"))

GET ==
    /\ pc = "idle"
    /\ response' = Handle(session, query, appraisals)
    /\ pc' = "responded"
    /\ UNCHANGED <<passwordHash, request, loading, error, fetches>>
    /\ UNCHANGED <<session, query, appraisals, renormalized, data, rows,
                   subject, now, enabled>>

\* The normalizer applied to the behaviorRatings of the first appraisal of an
\* answer, which are its own output.
Renormalize ==
    /\ pc = "responded"
    /\ response.status = 200
    /\ Len(response.appraisals) > 0
    /\ renormalized' =
           <<NormalizedRatings(response.appraisals[1].evaluation.behaviorRatings)>>
    /\ pc' = "renormalized"
    /\ UNCHANGED <<passwordHash, request, loading, error, fetches>>
    /\ UNCHANGED <<session, query, appraisals, response, data, rows,
                   subject, now, enabled>>

-----------------------------------------------------------------------------
(* Inputs *)

\* Capacity labels of raw behavior ratings: the five canonical ones, one in
\* upper case, one holding two keywords, one holding none, and one holding a
\* proper prefix of a keyword.
RawCapacities ==
    { InstitutionalCommitment, CollaborationTeamwork, Professionalism,
      ClientService, AchievingResults,
      <<"C", "L", "I", "E", "N", "T", " ", "S", "E", "R", "V", "I", "C", "E">>,
      <<"C", "l", "i", "e", "n", "t", " ", "P", "r", "o", "f", "e", "s", "s",
        "i", "o", "n", "a", "l", "i", "s", "m">>,
      <<"P", "u", "n", "c", "t", "u", "a", "l", "i", "t", "y">>,
      <<"P", "r", "o", "f", "e", "s", "s", "i", "o", "n", "a", "l">> }

RawRatings == [capacity : RawCapacities, points : 1..MaxRatingPts]

SeqsUpTo(S, n) == UNION {[1..k -> S] : k \in 0..n}

NoQuery == [cycleId |-> <<>>, status |-> "", search |-> <<>>]
NoSubject ==
    [status |-> "sent", endDate |-> [year |-> 2024, month |-> 0, date |-> 1, tick |-> 0]]

Instructor(name) == [name |-> name, departmentId |-> 1, role |-> "INSTRUCTOR"]

\* An evaluation with the given ratings and fixed category points.
EvaluationWith(ratings) ==
    [createdAt |-> 1, totalScore |-> <<10>>, researchPts |-> <<1>>,
     universityServicePts |-> <<2>>, communityServicePts |-> <<3>>,
     teachingQualityPts |-> <<4>>, behaviorRatings |-> ratings]

\* The handler on one appraisal of the caller's department whose latest
\* evaluation holds any list of raw ratings.
InitNorm ==
    /\ pc = "idle"
    /\ session = [email |-> "hod@uob"]
    /\ query = NoQuery
    /\ \E ratings \in SeqsUpTo(RawRatings, MaxRatings) :
           appraisals = <<[id |-> 1, status |-> "new", cycleId |-> 2,
                           updatedAt |-> 1, totalScore |-> <<>>,
                           faculty |-> Instructor(<<"A">>),
                           evaluations |-> <<EvaluationWith(ratings)>>]>>
    /\ response = NoResponse
    /\ renormalized = <<>>
    /\ data = <<>>
    /\ rows = <<>>
    /\ subject = NoSubject
    /\ now = 0
    /\ enabled = <<>>
    /\ passwordHash = StoredHashes
    /\ request = NoRequest
    /\ loading = TRUE
    /\ error = FALSE
    /\ fetches = <<>>

NextNorm == GET \/ Renormalize

SpecNorm == InitNorm /\ [][NextNorm]_vars

\* The sessions a request can come with: none, one of no user, and one of
\* each user.
Sessions == {[email |-> m] : m \in {"", "ghost@uob"} \cup {u.email : u \in Users}}

\* The search parameters a request can come with.
Queries ==
    { NoQuery,
      [NoQuery EXCEPT !.cycleId = <<"2", "x">>],
      [NoQuery EXCEPT !.cycleId = <<"1">>],
      [NoQuery EXCEPT !.cycleId = <<"a", "b", "c">>],
      [NoQuery EXCEPT !.status = "new", !.search = <<"a", "L">>],
      [NoQuery EXCEPT !.status = "bogus"] }

\* A session with every kind of caller and no parameters, or the head of
\* department 1 with any parameters.
Requests ==
    {<<s, NoQuery>> : s \in Sessions} \cup {<<[email |-> "hod@uob"], q>> : q \in Queries}

Nullable(S) == {<<>>} \cup {<<v>> : v \in S}

\* The evaluations that can be an appraisal's most recent one: every category
\* point and the total score null or a number.
LatestEvaluations ==
    [createdAt : {0},
     totalScore : Nullable(0..MaxCatPts),
     researchPts : Nullable(0..MaxCatPts),
     universityServicePts : Nullable(0..MaxCatPts),
     communityServicePts : Nullable(0..MaxCatPts),
     teachingQualityPts : Nullable(0..MaxCatPts),
     behaviorRatings : {<<>>, <<[capacity |-> ClientService, points |-> 1]>>}]

\* Earlier evaluations of the same appraisal; they differ from every latest
\* one in every field.
OlderEvaluations ==
    { [createdAt |-> 0, totalScore |-> <<90>>, researchPts |-> <<50>>,
       universityServicePts |-> <<51>>, communityServicePts |-> <<52>>,
       teachingQualityPts |-> <<53>>,
       behaviorRatings |-> <<[capacity |-> ClientService, points |-> 54],
                             [capacity |-> Professionalism, points |-> 55]>>],
      [createdAt |-> 0, totalScore |-> <<>>, researchPts |-> <<60>>,
       universityServicePts |-> <<>>, communityServicePts |-> <<62>>,
       teachingQualityPts |-> <<63>>,
       behaviorRatings |-> <<[capacity |-> AchievingResults, points |-> 64]>>] }

\* n evaluation rows of one appraisal in the order the table stores them: the
\* latest one at position at, the older ones around it, createdAt distinct and
\* largest for the latest.
EvaluationRows(n, at, latest, older) ==
    [i \in 1..n |->
        IF i = at THEN [latest EXCEPT !.createdAt = n + 1]
        ELSE [older[IF i < at THEN i ELSE i - 1] EXCEPT !.createdAt = i]]

\* An appraisal of another department, which no answer to the head of
\* department 1 may show.
ForeignAppraisal ==
    [id |-> 9, status |-> "new", cycleId |-> 2, updatedAt |-> 9,
     totalScore |-> <<>>,
     faculty |-> [name |-> <<"Z", "o", "e">>, departmentId |-> 2,
                  role |-> "INSTRUCTOR"],
     evaluations |-> <<EvaluationWith(<<>>)>>]

\* An appraisal of department 1 with the given evaluation rows.
LocalAppraisal(evals) ==
    [id |-> 1, status |-> "new", cycleId |-> 2, updatedAt |-> 1,
     totalScore |-> <<>>,
     faculty |-> Instructor(<<"A", "l", "i">>), evaluations |-> evals]

\* Any request against a table holding one appraisal of department 1, with
\* any evaluation rows, and one of another department.
InitGet ==
    /\ pc = "idle"
    /\ \E r \in Requests : session = r[1] /\ query = r[2]
    /\ \/ appraisals = <<ForeignAppraisal, LocalAppraisal(<<>>)>>
       \/ \E n \in 1..MaxEvals :
            \E at \in 1..n, latest \in LatestEvaluations,
               older \in [1..(n - 1) -> OlderEvaluations] :
                 appraisals = <<ForeignAppraisal,
                                LocalAppraisal(EvaluationRows(n, at, latest, older))>>
    /\ response = NoResponse
    /\ renormalized = <<>>
    /\ data = <<>>
    /\ rows = <<>>
    /\ subject = NoSubject
    /\ now = 0
    /\ enabled = <<>>
    /\ passwordHash = StoredHashes
    /\ request = NoRequest
    /\ loading = TRUE
    /\ error = FALSE
    /\ fetches = <<>>

NextGet == GET

SpecGet == InitGet /\ [][NextGet]_vars

\* The rows an appraisal table can hold: instructors of department 1 in both
\* cycles and several statuses, an instructor of department 2, a member of
\* department 1 who is no instructor, and an instructor without department;
\* updatedAt differs from row to row and does not follow the ids.
AppraisalRows ==
    LET Row(id, st, cy, at, name, dept, role, evals) ==
            [id |-> id, status |-> st, cycleId |-> cy, updatedAt |-> at,
             totalScore |-> <<>>,
             faculty |-> [name |-> name, departmentId |-> dept, role |-> role],
             evaluations |-> evals]
    IN  { Row(1, "new", 2, 5, <<"A", "l", "i">>, 1, "INSTRUCTOR", <<>>),
          Row(2, "complete", 2, 9, <<"S", "a", "l", "m", "a">>, 1, "INSTRUCTOR",
              <<EvaluationWith(<<[capacity |-> ClientService, points |-> 2]>>)>>),
          Row(3, "new", 1, 7, <<"O", "m", "a", "r">>, 1, "INSTRUCTOR",
              <<EvaluationWith(<<>>)>>),
          Row(4, "new", 2, 8, <<"L", "a", "l", "a">>, 2, "INSTRUCTOR", <<>>),
          Row(5, "new", 2, 6, <<"H", "a", "l", "a">>, 1, "HOD", <<>>),
          Row(6, "new", 2, 4, <<"T", "a", "l", "a", "l">>, 0, "INSTRUCTOR", <<>>) }

\* The tables of up to n distinct rows, in any order of storage.
TablesUpTo(n) ==
    {t \in SeqsUpTo(AppraisalRows, n) :
        \A i, j \in 1..Len(t) : i # j => t[i] # t[j]}

\* Every combination of a cycle filter, a status filter and a search.
ListQueries ==
    [cycleId : {<<>>, <<"1">>, <<"2">>},
     status : {"", "new", "complete"},
     search : {<<>>, <<"a", "L">>}]

\* The head of department 1 lists a table of several rows under any filters.
InitList ==
    /\ pc = "idle"
    /\ session = [email |-> "hod@uob"]
    /\ query \in ListQueries
    /\ appraisals \in TablesUpTo(MaxRows)
    /\ response = NoResponse
    /\ renormalized = <<>>
    /\ data = <<>>
    /\ rows = <<>>
    /\ subject = NoSubject
    /\ now = 0
    /\ enabled = <<>>
    /\ passwordHash = StoredHashes
    /\ request = NoRequest
    /\ loading = TRUE
    /\ error = FALSE
    /\ fetches = <<>>

NextList == GET

SpecList == InitList /\ [][NextList]_vars

-----------------------------------------------------------------------------
(* exportCSV of the appraisal tables *)

\* The total a table's column headers call "out of 100".
NominalMax == 100

\* (x).toFixed(2) for x = num / den >= 0, in hundredths: the integer n with
\* n / 100 nearest to x.  When num / den lies midway between two hundredths the
\* binary double computed for x is rarely that midpoint, and which neighbour it
\* is nearer to depends on its last bits: roundsUp says which one it is.
ToFixed2(num, den, roundsUp) ==
    LET q == (100 * num) \div den
        r == (100 * num) % den
    IN  IF 2 * r < den THEN q
        ELSE IF 2 * r > den THEN q + 1
        ELSE IF roundsUp THEN q + 1 ELSE q

\* a.evaluation ?? {} and a field of it, <<>> when undefined.
EvalField(a, f) == IF a.evaluation = <<>> THEN <<>> ELSE a.evaluation[1][f]

\* Array.isArray(evalData.behaviorRatings) ? evalData.behaviorRatings : []
RatingsOf(a) ==
    LET given == EvalField(a, "behaviorRatings")
    IN  IF given = <<>> THEN <<>> ELSE given[1]

\* Mutant: the lookup compares the labels without regard to case.
GetPointsAnyCase(ratings, capacity) ==
    LET hits == {i \in 1..Len(ratings) : Fold(ratings[i].capacity) = Fold(capacity)}
    IN  IF hits = {} THEN 0
        ELSE ratings[CHOOSE i \in hits : \A j \in hits : i <= j].points

\* ratings.find(r => r.capacity === capacity)?.points ?? 0
GetPoints(ratings, capacity) ==
    LET hits == {i \in 1..Len(ratings) : ratings[i].capacity = capacity}
    IN  IF hits = {} THEN 0
        ELSE ratings[CHOOSE i \in hits : \A j \in hits : i <= j].points

\* Mutant: the mean of the four categories instead of their sum.
RawPerformanceMean(a) ==
    (Coalesce(EvalField(a, "researchPts"), 0)
       + Coalesce(EvalField(a, "universityServicePts"), 0)
       + Coalesce(EvalField(a, "communityServicePts"), 0)
       + Coalesce(EvalField(a, "teachingQualityPts"), 0)) \div 4

RawPerformance(a) ==
    Coalesce(EvalField(a, "researchPts"), 0)
      + Coalesce(EvalField(a, "universityServicePts"), 0)
      + Coalesce(EvalField(a, "communityServicePts"), 0)
      + Coalesce(EvalField(a, "teachingQualityPts"), 0)

RawCapabilities(a) ==
    GetPoints(RatingsOf(a), InstitutionalCommitment)
      + GetPoints(RatingsOf(a), CollaborationTeamwork)
      + GetPoints(RatingsOf(a), Professionalism)
      + GetPoints(RatingsOf(a), ClientService)
      + GetPoints(RatingsOf(a), AchievingResults)

\* Mutant: the factor of the other scale.
ScalePerformanceBySeven(points) == ToFixed2(points * 7, 100, TRUE)

\* +(points * 3 / 100).toFixed(2), in hundredths; 3 * points / 100 is never
\* midway between two hundredths for an integer number of points.
ScalePerformance(points) == ToFixed2(points * 3, 100, TRUE)

\* Mutant: the factor of the other scale.
ScaleCapabilitiesByThree(points) == ToFixed2(points * 3, 100, TRUE)

\* +(points * 7 / 100).toFixed(2), in hundredths
ScaleCapabilities(points) == ToFixed2(points * 7, 100, TRUE)

\* +((totalPerformanceScaled + totalCapabilitiesScaled) / 2).toFixed(2), in
\* hundredths, from the two scaled totals in hundredths.
OverallTotalScaled(performanceScaled, capabilitiesScaled, roundsUp) ==
    ToFixed2(performanceScaled + capabilitiesScaled, 200, roundsUp)

\* Mutant: the keys without the blanks the object literal has at their ends
\* and after one parenthesis.
ExportRowTrimmedKeys(a, roundsUp) ==
    LET rawPerformance == RawPerformance(a)
        rawCapabilities == RawCapabilities(a)
        totalPerformanceScaled == ScalePerformance(rawPerformance)
        totalCapabilitiesScaled == ScaleCapabilities(rawCapabilities)
    IN  << [key |-> "Instructor", value |-> a.faculty.name],
           [key |-> "Research & Scientific Activities",
            value |-> Coalesce(EvalField(a, "researchPts"), 0)],
           [key |-> "University Service",
            value |-> Coalesce(EvalField(a, "universityServicePts"), 0)],
           [key |-> "Community Service",
            value |-> Coalesce(EvalField(a, "communityServicePts"), 0)],
           [key |-> "Quality of Teaching",
            value |-> Coalesce(EvalField(a, "teachingQualityPts"), 0)],
           [key |-> "Total Performance (out of 100)", value |-> rawPerformance],
           [key |-> "Total Performance (out of 3)", value |-> totalPerformanceScaled],
           [key |-> "Institutional Commitment",
            value |-> GetPoints(RatingsOf(a), InstitutionalCommitment)],
           [key |-> "Collaboration & Teamwork",
            value |-> GetPoints(RatingsOf(a), CollaborationTeamwork)],
           [key |-> "Professionalism",
            value |-> GetPoints(RatingsOf(a), Professionalism)],
           [key |-> "Client Service",
            value |-> GetPoints(RatingsOf(a), ClientService)],
           [key |-> "Achieving Results",
            value |-> GetPoints(RatingsOf(a), AchievingResults)],
           [key |-> "Total Capabilities (out of 100)", value |-> rawCapabilities],
           [key |-> "Total Capabilities (out of 7)", value |-> totalCapabilitiesScaled],
           [key |-> "Overall Total (out of 5)",
            value |-> OverallTotalScaled(totalPerformanceScaled,
                                         totalCapabilitiesScaled, roundsUp)] >>

\* One row of the export: the keys in the order the object literal lists them,
\* with their values; the three scaled values are in hundredths.
ExportRow(a, roundsUp) ==
    LET rawPerformance == RawPerformance(a)
        rawCapabilities == RawCapabilities(a)
        totalPerformanceScaled == ScalePerformance(rawPerformance)
        totalCapabilitiesScaled == ScaleCapabilities(rawCapabilities)
    IN  << [key |-> "Instructor", value |-> a.faculty.name],
           [key |-> "Research & Scientific Activities ",
            value |-> Coalesce(EvalField(a, "researchPts"), 0)],
           [key |-> "University Service ",
            value |-> Coalesce(EvalField(a, "universityServicePts"), 0)],
           [key |-> "Community Service ",
            value |-> Coalesce(EvalField(a, "communityServicePts"), 0)],
           [key |-> "Quality of Teaching ",
            value |-> Coalesce(EvalField(a, "teachingQualityPts"), 0)],
           [key |-> "Total Performance (out of 100)", value |-> rawPerformance],
           [key |-> "Total Performance (out of 3)", value |-> totalPerformanceScaled],
           [key |-> "Institutional Commitment ",
            value |-> GetPoints(RatingsOf(a), InstitutionalCommitment)],
           [key |-> "Collaboration & Teamwork ",
            value |-> GetPoints(RatingsOf(a), CollaborationTeamwork)],
           [key |-> "Professionalism ",
            value |-> GetPoints(RatingsOf(a), Professionalism)],
           [key |-> "Client Service ",
            value |-> GetPoints(RatingsOf(a), ClientService)],
           [key |-> "Achieving Results ",
            value |-> GetPoints(RatingsOf(a), AchievingResults)],
           [key |-> "Total Capabilities ( out of 100)", value |-> rawCapabilities],
           [key |-> "Total Capabilities (out of 7)", value |-> totalCapabilitiesScaled],
           [key |-> "Overall Total (out of 5)",
            value |-> OverallTotalScaled(totalPerformanceScaled,
                                         totalCapabilitiesScaled, roundsUp)] >>

\* exportCSV: nothing without appraisals, else one row per appraisal.
ExportCSV ==
    /\ pc = "loaded"
    /\ Len(data) > 0
    /\ \E roundsUp \in [1..Len(data) -> BOOLEAN] :
           rows' = [i \in 1..Len(data) |-> ExportRow(data[i], roundsUp[i])]
    /\ pc' = "exported"
    /\ UNCHANGED <<passwordHash, request, loading, error, fetches>>
    /\ UNCHANGED <<session, query, appraisals, response, renormalized, data,
                   subject, now, enabled>>

\* The points a category or a capacity can hold in the export's input: small
\* ones and the nominal maximum.
ExportPoints == (0..MaxExportPts) \cup {NominalMax}

\* The behavior ratings a table can hold: per canonical capacity no rating or
\* one with 0 or the nominal maximum, in canonical order, possibly after a
\* rating whose label is not spelled canonically.
ExportRatings ==
    LET Choices == [1..5 -> {<<>>, <<0>>, <<NominalMax>>}]
        Listed(c) ==
            LET Entry(k) == IF c[k] = <<>> THEN <<>>
                            ELSE <<[capacity |-> CanonicalCapacities[k],
                                    points |-> c[k][1]]>>
            IN  Entry(1) \o Entry(2) \o Entry(3) \o Entry(4) \o Entry(5)
        other == [capacity |-> <<"c", "l", "i", "e", "n", "t", " ", "s", "e",
                                 "r", "v", "i", "c", "e">>,
                  points |-> NominalMax]
    IN  {Listed(c) : c \in Choices} \cup {<<other>> \o Listed(c) : c \in Choices}

\* An appraisal held by a table, with the given evaluation.
LoadedAppraisal(ev) ==
    [id |-> 1, status |-> "complete", faculty |-> Instructor(<<"A", "l", "i">>),
     evaluation |-> ev]

\* A table that has loaded one appraisal whose evaluation is absent, or has
\* category points and behavior ratings each of which may be absent.
InitExport ==
    /\ pc = "loaded"
    /\ session = [email |-> ""]
    /\ query = NoQuery
    /\ appraisals = <<>>
    /\ response = NoResponse
    /\ renormalized = <<>>
    /\ \/ data = <<LoadedAppraisal(<<>>)>>
       \/ \E research, university, community, teaching \in Nullable(ExportPoints),
             ratings \in {<<>>} \cup {<<r>> : r \in ExportRatings} :
               data = <<LoadedAppraisal(
                          <<[totalScore |-> <<0>>,
                             researchPts |-> research,
                             universityServicePts |-> university,
                             communityServicePts |-> community,
                             teachingQualityPts |-> teaching,
                             behaviorRatings |-> ratings]>>)>>
    /\ rows = <<>>
    /\ subject = NoSubject
    /\ now = 0
    /\ enabled = <<>>
    /\ passwordHash = StoredHashes
    /\ request = NoRequest
    /\ loading = TRUE
    /\ error = FALSE
    /\ fetches = <<>>

NextExport == ExportCSV

SpecExport == InitExport /\ [][NextExport]_vars

-----------------------------------------------------------------------------
(* The password reset handler *)

\* Mutant: the update has no where clause and writes every row.
UpdateEveryUser(table, email, hashed) ==
    [m \in DOMAIN table |-> hashed]

\* prisma.user.update({ where: { email }, data: { passwordHash: hashed } })
UpdateUser(table, email, hashed) ==
    [table EXCEPT ![email] = hashed]

\* The salts bcrypt can draw.
Salts == {"s1", "s2"}

\* bcrypt.hash(newPassword, 10) with the salt drawn
BcryptHash(newPassword, salt) == <<"bcrypt", newPassword, salt>>

\* The bodies a reset request can carry: the email of a user, that email in
\* another case, an email of nobody, or none; a new password or none.
ResetRequests ==
    [email : Nullable({"hod@uob", "inst@uob", "HOD@uob", "nobody@uob"}),
     newPassword : Nullable({"pw1", "pw2"})]

\* The answers of the reset handler.
EmailNotFound == [status |-> 404, error |-> "Email not found"]
PasswordUpdated == [status |-> 200, message |-> "Password updated successfully"]
ServerError == [status |-> 500, error |-> "Server error"]

\* POST of the reset route on one request body.  findUnique throws on a
\* missing email and bcrypt.hash on a missing password; both are caught.
POST ==
    /\ pc = "reset"
    /\ \E body \in ResetRequests, salt \in Salts :
         /\ request' = body
         /\ IF body.email = <<>>
            THEN response' = ServerError /\ passwordHash' = passwordHash
            ELSE IF body.email[1] \notin DOMAIN passwordHash
            THEN response' = EmailNotFound /\ passwordHash' = passwordHash
            ELSE IF body.newPassword = <<>>
            THEN response' = ServerError /\ passwordHash' = passwordHash
            ELSE /\ passwordHash' =
                       UpdateUser(passwordHash, body.email[1],
                                  BcryptHash(body.newPassword[1], salt))
                 /\ response' = PasswordUpdated
    /\ UNCHANGED <<pc, session, query, appraisals, renormalized, data, rows,
                   subject, now, enabled, loading, error, fetches>>

InitReset ==
    /\ pc = "reset"
    /\ session = [email |-> ""]
    /\ query = NoQuery
    /\ appraisals = <<>>
    /\ response = NoResponse
    /\ renormalized = <<>>
    /\ data = <<>>
    /\ rows = <<>>
    /\ subject = NoSubject
    /\ now = 0
    /\ enabled = <<>>
    /\ passwordHash = StoredHashes
    /\ request = NoRequest
    /\ loading = TRUE
    /\ error = FALSE
    /\ fetches = <<>>

NextReset == POST

SpecReset == InitReset /\ [][NextReset]_vars

-----------------------------------------------------------------------------
(* The HOD table: fetchData on the handler's answer, then exportCSV *)

\* Mutant: the appraisal is stored as received, as the Dean table stores it.
AppraisalAsReceived(a) ==
    [id |-> a.id, status |-> a.status, cycleId |-> a.cycleId,
     totalScore |-> a.totalScore, faculty |-> a.faculty,
     evaluation |->
        <<[behaviorRatings      |-> <<a.evaluation.behaviorRatings>>,
           researchPts          |-> a.evaluation.researchPts,
           universityServicePts |-> a.evaluation.universityServicePts,
           communityServicePts  |-> a.evaluation.communityServicePts,
           teachingQualityPts   |-> a.evaluation.teachingQualityPts,
           totalScore           |-> a.evaluation.totalScore]>>]

\* One element of appraisalsWithEval: the answered appraisal with every
\* missing field of its evaluation replaced.
AppraisalWithEval(a) ==
    [id |-> a.id, status |-> a.status, cycleId |-> a.cycleId,
     totalScore |-> a.totalScore, faculty |-> a.faculty,
     evaluation |->
        <<[behaviorRatings      |-> <<a.evaluation.behaviorRatings>>,
           researchPts          |-> <<Coalesce(a.evaluation.researchPts, 0)>>,
           universityServicePts |-> <<Coalesce(a.evaluation.universityServicePts, 0)>>,
           communityServicePts  |-> <<Coalesce(a.evaluation.communityServicePts, 0)>>,
           teachingQualityPts   |-> <<Coalesce(a.evaluation.teachingQualityPts, 0)>>,
           totalScore           |->
               <<Coalesce(a.evaluation.totalScore, Coalesce(a.totalScore, 0))>>]>>]

\* String(active.id) for the first active cycle of the answer, <<>> when the
\* answer lists none.
ActiveCycleId(cycles) ==
    LET active == {i \in 1..Len(cycles) : cycles[i].isActive}
    IN  IF active = {} THEN <<>>
        ELSE <<Digits[cycles[CHOOSE i \in active : \A j \in active : i <= j].id + 1]>>

\* fetchData once the answer has arrived: an answer that is not ok is thrown
\* and leaves the data as they were; an ok one is stored with its evaluations
\* completed, and when no cycle filter is set and the answer lists an active
\* cycle the filter is set to it, which fetches again.
FetchData ==
    /\ pc = "responded"
    /\ IF response.status = 200
       THEN /\ data' = [i \in 1..Len(response.appraisals) |->
                           AppraisalWithEval(response.appraisals[i])]
            /\ IF query.cycleId = <<>> /\ ActiveCycleId(response.cycles) # <<>>
               THEN /\ query' = [query EXCEPT !.cycleId = ActiveCycleId(response.cycles)]
                    /\ pc' = "idle"
               ELSE /\ query' = query
                    /\ pc' = "loaded"
       ELSE /\ data' = data
            /\ query' = query
            /\ pc' = "failed"
    /\ loading' = (pc' = "idle")
    /\ error' = (response.status # 200)
    /\ UNCHANGED <<passwordHash, request, fetches>>
    /\ UNCHANGED <<session, appraisals, response, renormalized, rows,
                   subject, now, enabled>>

\* An appraisal of department 1 with its own total score and one evaluation.
ScoredAppraisal(total, evals) ==
    [LocalAppraisal(evals) EXCEPT !.totalScore = total]

\* The head of department 1 opens the table, with no filter or with a cycle
\* filter that is no number, or the dean does; the table holds one appraisal
\* of the department: without evaluation, with one whose points may each be
\* missing, or with one holding any list of raw ratings.
InitHod ==
    /\ pc = "idle"
    /\ \E r \in {<<[email |-> "hod@uob"], NoQuery>>,
                  <<[email |-> "hod@uob"], [NoQuery EXCEPT !.cycleId = <<"x">>]>>,
                  <<[email |-> "dean@uob"], NoQuery>>} :
           session = r[1] /\ query = r[2]
    /\ \E total \in Nullable({7}) :
         \/ appraisals = <<ForeignAppraisal, ScoredAppraisal(total, <<>>)>>
         \/ \E latest \in LatestEvaluations :
              appraisals = <<ForeignAppraisal, ScoredAppraisal(total, <<latest>>)>>
         \/ \E ratings \in SeqsUpTo(RawRatings, MaxRatings) :
              appraisals = <<ForeignAppraisal,
                             ScoredAppraisal(total, <<EvaluationWith(ratings)>>)>>
    /\ response = NoResponse
    /\ renormalized = <<>>
    /\ data = <<>>
    /\ rows = <<>>
    /\ subject = NoSubject
    /\ now = 0
    /\ enabled = <<>>
    /\ passwordHash = StoredHashes
    /\ request = NoRequest
    /\ loading = TRUE
    /\ error = FALSE
    /\ fetches = <<>>

NextHod == GET \/ FetchData \/ ExportCSV

SpecHod == InitHod /\ [][NextHod]_vars

\* The Dean table after its fetchData, which stores the answer as received:
\* one appraisal whose evaluation holds any list of raw ratings.
InitDean ==
    /\ pc = "loaded"
    /\ session = [email |-> "dean@uob"]
    /\ query = NoQuery
    /\ appraisals = <<>>
    /\ response = NoResponse
    /\ renormalized = <<>>
    /\ \E ratings \in SeqsUpTo(RawRatings, MaxRatings) :
           data = <<LoadedAppraisal(
                      <<[totalScore |-> <<10>>, researchPts |-> <<1>>,
                         universityServicePts |-> <<2>>,
                         communityServicePts |-> <<3>>,
                         teachingQualityPts |-> <<4>>,
                         behaviorRatings |-> <<ratings>>]>>)>>
    /\ rows = <<>>
    /\ subject = NoSubject
    /\ now = 0
    /\ enabled = <<>>
    /\ passwordHash = StoredHashes
    /\ request = NoRequest
    /\ loading = TRUE
    /\ error = FALSE
    /\ fetches = <<>>

\* Both tables: the HOD table from its first fetch on, the Dean table loaded.
InitTables == InitHod \/ InitDean

NextTables == GET \/ FetchData \/ ExportCSV

SpecTables == InitTables /\ [][NextTables]_vars

-----------------------------------------------------------------------------
(* The evaluation-eligibility gate of the appraisal tables *)

\* A Date is its calendar fields [year, month, date, tick] with month 0..11 as
\* getMonth gives it and tick the time of day in units of 1 / TicksPerDay day;
\* an instant is a number of ticks since the first day of the first calendar
\* year.  The local time zone of the fields is taken to be UTC.
CalendarYears == 2022..2025
FirstYear == CHOOSE y \in CalendarYears : \A z \in CalendarYears : y <= z

IsLeapYear(y) == (y % 4 = 0 /\ y % 100 # 0) \/ y % 400 = 0

DaysInMonth(y, m) ==
    IF m = 1 THEN (IF IsLeapYear(y) THEN 29 ELSE 28)
    ELSE IF m \in {3, 5, 8, 10} THEN 30 ELSE 31

RECURSIVE DaysBeforeYear(_)
DaysBeforeYear(y) ==
    IF y <= FirstYear THEN 0
    ELSE DaysBeforeYear(y - 1) + (IF IsLeapYear(y - 1) THEN 366 ELSE 365)

RECURSIVE DaysBeforeMonth(_, _)
DaysBeforeMonth(y, m) ==
    IF m <= 0 THEN 0 ELSE DaysBeforeMonth(y, m - 1) + DaysInMonth(y, m - 1)

\* Mutant: a date past the end of the month is clamped to its last day.
MakeDayClamped(y, m, date) ==
    LET yy == IF m < 0 THEN y - 1 ELSE y
        mm == IF m < 0 THEN m + 12 ELSE m
        dd == IF date > DaysInMonth(yy, mm) THEN DaysInMonth(yy, mm) ELSE date
    IN  DaysBeforeYear(yy) + DaysBeforeMonth(yy, mm) + (dd - 1)

\* The day number of the date-th day counted from the first of month m of year
\* y, for m in -12..11: a month below 0 is one of the year before, and a date
\* past the end of the month runs on into the months after it.
MakeDay(y, m, date) ==
    LET yy == IF m < 0 THEN y - 1 ELSE y
        mm == IF m < 0 THEN m + 12 ELSE m
    IN  DaysBeforeYear(yy) + DaysBeforeMonth(yy, mm) + (date - 1)

\* date.getTime()
TimeOf(d) == MakeDay(d.year, d.month, d.date) * TicksPerDay + d.tick

\* The time of a copy of d after setMonth(getMonth() - 1).
TimeOfMonthBefore(d) == MakeDay(d.year, d.month - 1, d.date) * TicksPerDay + d.tick

\* Mutant: the end of the window is excluded.
ShouldEnableEvaluationBeforeEnd(appraisal, clock) ==
    IF appraisal.status = "complete" THEN FALSE
    ELSE IF appraisal.status = "new"
    THEN clock >= TimeOfMonthBefore(appraisal.endDate)
             /\ clock < TimeOf(appraisal.endDate)
    ELSE TRUE

\* Mutant: the window is asked of every status but 'complete'.
ShouldEnableEvaluationAnyStatus(appraisal, clock) ==
    IF appraisal.status = "complete" THEN FALSE
    ELSE clock >= TimeOfMonthBefore(appraisal.endDate)
             /\ clock <= TimeOf(appraisal.endDate)

\* shouldEnableEvaluation(appraisal) when new Date() is the instant clock.
ShouldEnableEvaluation(appraisal, clock) ==
    IF appraisal.status = "complete" THEN FALSE
    ELSE IF appraisal.status = "new"
    THEN LET cycleEndDate == TimeOf(appraisal.endDate)
             oneMonthBeforeEnd == TimeOfMonthBefore(appraisal.endDate)
         IN  clock >= oneMonthBeforeEnd /\ clock <= cycleEndDate
    ELSE TRUE

\* A render of the table row asks shouldEnableEvaluation at the current time.
Render ==
    /\ pc = "table"
    /\ enabled' = <<ShouldEnableEvaluation(subject, now)>>
    /\ UNCHANGED <<passwordHash, request, loading, error, fetches>>
    /\ UNCHANGED <<pc, session, query, appraisals, response, renormalized,
                   data, rows, subject, now>>

\* The wall clock advances, up to TrailDays days after the cycle's end; what a
\* render was told belongs to the instant that has passed.
Tick ==
    /\ pc = "table"
    /\ now < TimeOf(subject.endDate) + TrailDays * TicksPerDay
    /\ now' = now + 1
    /\ enabled' = <<>>
    /\ UNCHANGED <<passwordHash, request, loading, error, fetches>>
    /\ UNCHANGED <<pc, session, query, appraisals, response, renormalized,
                   data, rows, subject>>

\* Cycle end dates: the 1st, the 15th and the 28th to the last day of every
\* month of a common year and of a leap year, at any time of day.
EndDates ==
    { d \in [year : {2023, 2024}, month : 0..11, date : {1, 15, 28, 29, 30, 31},
             tick : 0..(TicksPerDay - 1)] :
        d.date <= DaysInMonth(d.year, d.month) }

\* A table row of any status and cycle end date, LeadDays days before the end.
InitEligibility ==
    /\ pc = "table"
    /\ session = [email |-> ""]
    /\ query = NoQuery
    /\ appraisals = <<>>
    /\ response = NoResponse
    /\ renormalized = <<>>
    /\ data = <<>>
    /\ rows = <<>>
    /\ \E st \in EvaluationStatus, d \in EndDates :
           /\ subject = [status |-> st, endDate |-> d]
           /\ now = TimeOf(d) - LeadDays * TicksPerDay
    /\ enabled = <<>>
    /\ passwordHash = StoredHashes
    /\ request = NoRequest
    /\ loading = TRUE
    /\ error = FALSE
    /\ fetches = <<>>

NextEligibility == Render \/ Tick

SpecEligibility == InitEligibility /\ [][NextEligibility]_vars

-----------------------------------------------------------------------------
(* Properties of the capacity normalizer, checked under SpecNorm *)

\* The five capacity names and keywords as the specification lists them.
ExpectedCapacities ==
    <<<<"I", "n", "s", "t", "i", "t", "u", "t", "i", "o", "n", "a", "l", " ",
        "C", "o", "m", "m", "i", "t", "m", "e", "n", "t">>,
      <<"C", "o", "l", "l", "a", "b", "o", "r", "a", "t", "i", "o", "n", " ",
        "&", " ", "T", "e", "a", "m", "w", "o", "r", "k">>,
      <<"P", "r", "o", "f", "e", "s", "s", "i", "o", "n", "a", "l", "i", "s", "m">>,
      <<"C", "l", "i", "e", "n", "t", " ", "S", "e", "r", "v", "i", "c", "e">>,
      <<"A", "c", "h", "i", "e", "v", "i", "n", "g", " ", "R", "e", "s", "u", "l",
        "t", "s">>>>

ExpectedKeywords ==
    <<<<"i", "n", "s", "t", "i", "t", "u", "t", "i", "o", "n", "a", "l">>,
      <<"c", "o", "l", "l", "a", "b", "o", "r", "a", "t", "i", "o", "n">>,
      <<"p", "r", "o", "f", "e", "s", "s", "i", "o", "n", "a", "l", "i", "s", "m">>,
      <<"c", "l", "i", "e", "n", "t">>,
      <<"a", "c", "h", "i", "e", "v", "i", "n", "g">>>>

Answered == pc # "idle" /\ response.status = 200 /\ Len(response.appraisals) = 1

\* The raw ratings of the latest evaluation of the one appraisal of SpecNorm,
\* and what the handler answered for it.
RawOfFirst == appraisals[1].evaluations[1].behaviorRatings
OutOfFirst == response.appraisals[1].evaluation.behaviorRatings

\* The keywords a label contains, case-insensitively.
KeywordsIn(label) ==
    {k \in 1..5 : Contains(Fold(label), ExpectedKeywords[k])}

\* C1: whatever the raw ratings of the latest evaluation are, the answered
\* behaviorRatings have exactly 5 entries, labelled with the five canonical
\* capacities in their fixed order.
C1_FiveCanonicalEntries ==
    Answered =>
        /\ Len(OutOfFirst) = 5
        /\ \A k \in 1..5 : OutOfFirst[k].capacity = ExpectedCapacities[k]

\* C1 witness: answered for a raw list of two ratings with the same label.
C1_Witness ==
    /\ Answered
    /\ Len(RawOfFirst) = 2
    /\ RawOfFirst[1].capacity = RawOfFirst[2].capacity
    /\ Len(OutOfFirst) = 5

\* C3: each normalized entry carries the points of the first raw rating, in
\* input order, whose label contains the entry's keyword case-insensitively,
\* and 0 when there is none; a rating matching no keyword supplies nothing and
\* the handler still answers 200.
C3_FirstMatchOrZero ==
    pc # "idle" =>
        /\ response.status = 200
        /\ Len(response.appraisals) = 1
        /\ \A k \in 1..5 :
              LET hits == {i \in 1..Len(RawOfFirst) : k \in KeywordsIn(RawOfFirst[i].capacity)}
              IN  IF hits = {}
                  THEN OutOfFirst[k].points = 0
                  ELSE \E i \in hits :
                          /\ \A j \in hits : i <= j
                          /\ OutOfFirst[k].points = RawOfFirst[i].points

\* C3 witness: two ratings match the same keyword with different points and
\* the first one's points are answered.
C3_Witness ==
    /\ Answered
    /\ Len(RawOfFirst) = 2
    /\ 4 \in KeywordsIn(RawOfFirst[1].capacity)
    /\ 4 \in KeywordsIn(RawOfFirst[2].capacity)
    /\ RawOfFirst[1].capacity # RawOfFirst[2].capacity
    /\ RawOfFirst[1].points # RawOfFirst[2].points
    /\ OutOfFirst[4].points = RawOfFirst[1].points

\* The raw ratings have pairwise distinct (and non-zero) points, so that the
\* points of a normalized entry tell which raw rating supplied them.
DistinctPoints ==
    \A i, j \in 1..Len(RawOfFirst) :
        i # j => RawOfFirst[i].points # RawOfFirst[j].points

\* The normalized entries carrying the points of raw rating i.
SuppliedBy(i) == {k \in 1..5 : OutOfFirst[k].points = RawOfFirst[i].points}

\* C4 as stated: every raw rating supplies the points of at most one of the
\* five normalized entries, also when its label holds several keywords.
C4_AtMostOneEntryPerRating ==
    (Answered /\ DistinctPoints) =>
        \A i \in 1..Len(RawOfFirst) : Cardinality(SuppliedBy(i)) <= 1

\* C4 amended: a raw rating supplies the points of at most as many normalized
\* entries as its label contains keywords: one for a label with one keyword,
\* none for a label with none, and possibly several for an ambiguous label.
C4_AtMostOneEntryPerKeyword ==
    (Answered /\ DistinctPoints) =>
        \A i \in 1..Len(RawOfFirst) :
            Cardinality(SuppliedBy(i)) <= Cardinality(KeywordsIn(RawOfFirst[i].capacity))

\* C4 witness: a rating whose label holds both 'client' and 'professionalism'
\* comes first and supplies both entries.
C4_Witness ==
    /\ Answered
    /\ DistinctPoints
    /\ Len(RawOfFirst) = 2
    /\ KeywordsIn(RawOfFirst[1].capacity) = {3, 4}
    /\ SuppliedBy(1) = {3, 4}

\* C5: normalizing the normalizer's own output gives that output again, the
\* same 5 labels in the same order with the same points.
C5_Idempotent ==
    pc = "renormalized" => renormalized = <<OutOfFirst>>

\* C5 witness: an output with a non-zero entry for every capacity but one has
\* been normalized again.
C5_Witness ==
    /\ pc = "renormalized"
    /\ renormalized = <<OutOfFirst>>
    /\ Cardinality({k \in 1..5 : OutOfFirst[k].points # 0}) >= 2

-----------------------------------------------------------------------------
(* Properties of the evaluation selector, checked under SpecGet *)

\* The row of the appraisal table an answered view was made from.
TableRow(id) ==
    appraisals[CHOOSE i \in 1..Len(appraisals) : appraisals[i].id = id]

\* The most recently created of the evaluation rows evs.
NewestOf(evs) ==
    evs[CHOOSE i \in 1..Len(evs) :
            \A j \in 1..Len(evs) : evs[i].createdAt >= evs[j].createdAt]

\* C2: an appraisal with no evaluation is answered with an evaluation that is
\* present and has the four category points, the total score and all five
\* normalized rating points equal to 0.
C2_NoEvaluationAllZero ==
    (pc = "responded" /\ response.status = 200) =>
        \A i \in 1..Len(response.appraisals) :
            LET v == response.appraisals[i]
            IN  TableRow(v.id).evaluations = <<>> =>
                    /\ v.evaluation.researchPts = <<0>>
                    /\ v.evaluation.universityServicePts = <<0>>
                    /\ v.evaluation.communityServicePts = <<0>>
                    /\ v.evaluation.teachingQualityPts = <<0>>
                    /\ v.evaluation.totalScore = <<0>>
                    /\ Len(v.evaluation.behaviorRatings) = 5
                    /\ \A k \in 1..5 : v.evaluation.behaviorRatings[k].points = 0

\* C2 witness: an appraisal without evaluation has been answered.
C2_Witness ==
    /\ pc = "responded"
    /\ response.status = 200
    /\ Len(response.appraisals) = 1
    /\ TableRow(response.appraisals[1].id).evaluations = <<>>
    /\ response.appraisals[1].evaluation.totalScore = <<0>>

\* C6: for an appraisal with evaluations, every field of the answered
\* evaluation is that of the most recently created evaluation (index 0 of the
\* list in creation-descending order), whatever the older evaluations hold.
C6_LatestEvaluationOnly ==
    (pc = "responded" /\ response.status = 200) =>
        \A i \in 1..Len(response.appraisals) :
            LET v == response.appraisals[i]
                stored == TableRow(v.id).evaluations
            IN  stored # <<>> =>
                    LET newest == NewestOf(stored)
                    IN  /\ v.evaluation.totalScore = newest.totalScore
                        /\ v.evaluation.researchPts = newest.researchPts
                        /\ v.evaluation.universityServicePts = newest.universityServicePts
                        /\ v.evaluation.communityServicePts = newest.communityServicePts
                        /\ v.evaluation.teachingQualityPts = newest.teachingQualityPts
                        /\ v.evaluation.behaviorRatings =
                               NormalizedRatings(newest.behaviorRatings)

\* C6 witness: an appraisal with an older evaluation stored before the latest
\* one has been answered with the latest one's points.
C6_Witness ==
    /\ pc = "responded"
    /\ response.status = 200
    /\ Len(response.appraisals) = 1
    /\ LET stored == TableRow(response.appraisals[1].id).evaluations
       IN  /\ Len(stored) = 2
           /\ stored[1].createdAt < stored[2].createdAt
           /\ stored[2].researchPts = <<1>>
           /\ response.appraisals[1].evaluation.researchPts = <<1>>
           /\ response.appraisals[1].evaluation.behaviorRatings[4].points = 1

-----------------------------------------------------------------------------
(* Properties of the export, checked under SpecExport *)

\* The value a row holds under a key.
Cell(row, key) ==
    row[CHOOSE i \in 1..Len(row) : row[i].key = key].value

\* The four category points of the appraisal row i was made from, an absent
\* one counted as 0.
CategoryPoints(i) ==
    LET ev == data[i].evaluation
        Pts(f) == IF ev = <<>> THEN 0 ELSE IF ev[1][f] = <<>> THEN 0 ELSE ev[1][f][1]
    IN  <<Pts("researchPts"), Pts("universityServicePts"),
          Pts("communityServicePts"), Pts("teachingQualityPts")>>

\* The five capacity cells of a row.
CapacityCells(row) ==
    <<Cell(row, "Institutional Commitment "), Cell(row, "Collaboration & Teamwork "),
      Cell(row, "Professionalism "), Cell(row, "Client Service "),
      Cell(row, "Achieving Results ")>>

Exported == pc = "exported" /\ Len(rows) = Len(data)

\* C7: in every exported row the raw performance total is the plain sum of the
\* four category points, an absent one counted as 0, and the raw capabilities
\* total is the plain sum of the five capacity points of the same row.
C7_RawTotalsAreSums ==
    pc = "exported" =>
        /\ Len(rows) = Len(data)
        /\ \A i \in 1..Len(rows) :
              LET c == CategoryPoints(i)
                  b == CapacityCells(rows[i])
              IN  /\ Cell(rows[i], "Total Performance (out of 100)")
                         = c[1] + c[2] + c[3] + c[4]
                  /\ Cell(rows[i], "Total Capabilities ( out of 100)")
                         = b[1] + b[2] + b[3] + b[4] + b[5]

\* C7 witness: a row exported for an evaluation with an absent category point,
\* two categories at the nominal maximum and two rated capacities.
C7_Witness ==
    /\ Exported
    /\ data[1].evaluation # <<>>
    /\ data[1].evaluation[1].researchPts = <<>>
    /\ Cell(rows[1], "Total Performance (out of 100)") = 2 * NominalMax
    /\ Cell(rows[1], "Total Capabilities ( out of 100)") = 2 * NominalMax

\* C8: in every exported row the scaled performance is the raw performance
\* total times 3 / 100 and the scaled capabilities the raw capabilities total
\* times 7 / 100, each to two decimals, and the overall total is a two-decimal
\* value nearest to half the sum of these two already rounded values; raw
\* totals of 100 and 100 give 3.00, 7.00 and 5.00, raw totals of 0 give 0.00.
C8_ScalingAndOverall ==
    pc = "exported" =>
        \A i \in 1..Len(rows) :
            LET rawP == Cell(rows[i], "Total Performance (out of 100)")
                rawC == Cell(rows[i], "Total Capabilities ( out of 100)")
                sP == Cell(rows[i], "Total Performance (out of 3)")
                sC == Cell(rows[i], "Total Capabilities (out of 7)")
                overall == Cell(rows[i], "Overall Total (out of 5)")
            IN  /\ sP = 3 * rawP
                /\ sC = 7 * rawC
                /\ 2 * overall - (sP + sC) \in {-1, 0, 1}
                /\ (rawP = 100 /\ rawC = 100) => (sP = 300 /\ sC = 700 /\ overall = 500)
                /\ (rawP = 0 /\ rawC = 0) => overall = 0

\* C8 witness: the row for raw totals 100 and 100 has been exported with
\* 3.00, 7.00 and 5.00.
C8_Witness ==
    /\ Exported
    /\ Cell(rows[1], "Total Performance (out of 100)") = 100
    /\ Cell(rows[1], "Total Capabilities ( out of 100)") = 100
    /\ Cell(rows[1], "Total Performance (out of 3)") = 300
    /\ Cell(rows[1], "Total Capabilities (out of 7)") = 700
    /\ Cell(rows[1], "Overall Total (out of 5)") = 500

\* Every category point and every capacity point of row i lies in [0, 100].
PointsNominal(i) ==
    /\ \A k \in 1..4 : CategoryPoints(i)[k] \in 0..100
    /\ \A k \in 1..5 : CapacityCells(rows[i])[k] \in 0..100

\* C9 as stated: with every category point and every capacity point in
\* [0, 100], the scaled performance is in [0, 3], the scaled capabilities in
\* [0, 7] and the overall total in [0, 5].
C9_ScaledWithinScales ==
    pc = "exported" =>
        \A i \in 1..Len(rows) :
            PointsNominal(i) =>
                /\ Cell(rows[i], "Total Performance (out of 3)") \in 0..300
                /\ Cell(rows[i], "Total Capabilities (out of 7)") \in 0..700
                /\ Cell(rows[i], "Overall Total (out of 5)") \in 0..500

\* C9 amended: the scaled performance is in [0, 3] when the four category
\* points sum to at most 100, the scaled capabilities in [0, 7] when the five
\* capacity points sum to at most 100, and the overall total in [0, 5] when
\* both do.
C9_ScaledWithinScalesOfNominalTotals ==
    pc = "exported" =>
        \A i \in 1..Len(rows) :
            LET c == CategoryPoints(i)
                b == CapacityCells(rows[i])
                rawP == c[1] + c[2] + c[3] + c[4]
                rawC == b[1] + b[2] + b[3] + b[4] + b[5]
                sP == Cell(rows[i], "Total Performance (out of 3)")
                sC == Cell(rows[i], "Total Capabilities (out of 7)")
                overall == Cell(rows[i], "Overall Total (out of 5)")
            IN  /\ rawP \in 0..100 => sP \in 0..300
                /\ rawC \in 0..100 => sC \in 0..700
                /\ (rawP \in 0..100 /\ rawC \in 0..100) => overall \in 0..500

\* C9 witness: a row whose category points sum to 100 and whose capacity
\* points sum to 100 has been exported at the top of the three scales.
C9_Witness ==
    /\ Exported
    /\ CategoryPoints(1) = <<0, 100, 0, 0>>
    /\ CapacityCells(rows[1]) = <<0, 0, 0, 0, 100>>
    /\ Cell(rows[1], "Total Performance (out of 3)") = 300
    /\ Cell(rows[1], "Total Capabilities (out of 7)") = 700
    /\ Cell(rows[1], "Overall Total (out of 5)") = 500

-----------------------------------------------------------------------------
(* Properties of the eligibility gate, checked under SpecEligibility *)

\* C10: whatever the clock and the cycle end date, a row of status 'complete'
\* is rendered not eligible and a row of status 'in_progress' or 'sent' is
\* rendered eligible.
C10_StatusAloneDecides ==
    enabled # <<>> =>
        /\ subject.status = "complete" => enabled = <<FALSE>>
        /\ subject.status \in {"in_progress", "sent"} => enabled = <<TRUE>>

\* C10 witness: a row of status 'sent' rendered eligible after its cycle's end.
C10_Witness ==
    /\ enabled # <<>>
    /\ subject.status = "sent"
    /\ now > TimeOf(subject.endDate)
    /\ enabled = <<TRUE>>

\* The number of days of the calendar month before the one date d lies in.
DaysOfMonthBefore(d) ==
    IF d.month = 0 THEN DaysInMonth(d.year - 1, 11)
    ELSE DaysInMonth(d.year, d.month - 1)

\* The instant at 0 ticks of a calendar day, from the first days of months.
StartOfDay(y, m, date) ==
    (MakeDay(y, m, 1) + (date - 1)) * TicksPerDay

\* C11: a row of status 'new' is rendered eligible exactly when the clock lies
\* in the closed window from one month before the cycle's end (as many days
\* before it as the month preceding its month has) to the cycle's end, at
\* every render; so never before the window and never again after the end.
\* With the end on 2024-06-30 it is eligible on 2024-06-15 and not on
\* 2024-05-15 nor on 2024-07-01.
C11_NewEligibleInsideWindow ==
    (enabled # <<>> /\ subject.status = "new") =>
        LET end == TimeOf(subject.endDate)
            start == end - DaysOfMonthBefore(subject.endDate) * TicksPerDay
            d == subject.endDate
        IN  /\ enabled = <<(start <= now /\ now <= end)>>
            /\ now > end => enabled = <<FALSE>>
            /\ (d.year = 2024 /\ d.month = 5 /\ d.date = 30 /\ d.tick = 0) =>
                  /\ now = StartOfDay(2024, 5, 15) => enabled = <<TRUE>>
                  /\ now = StartOfDay(2024, 4, 15) => enabled = <<FALSE>>
                  /\ now = StartOfDay(2024, 6, 1) => enabled = <<FALSE>>

\* C11 witness: a 'new' row of the cycle ending 2024-06-30 rendered eligible
\* on 2024-06-15.
C11_Witness ==
    /\ subject.status = "new"
    /\ subject.endDate = [year |-> 2024, month |-> 5, date |-> 30, tick |-> 0]
    /\ now = StartOfDay(2024, 5, 15)
    /\ enabled = <<TRUE>>

\* The computed start of the window lies in the calendar month before the one
\* the end date lies in.
StartInMonthBefore(d) ==
    LET start == TimeOfMonthBefore(d)
    IN  /\ StartOfDay(d.year, d.month - 1, 1) <= start
        /\ start < StartOfDay(d.year, d.month, 1)

\* C19 as stated: for every cycle end date the computed start of the window of
\* a 'new' row is strictly earlier than the end, lies in the calendar month
\* preceding the end date's month, and the window is not empty.
C19_StartInPrecedingMonth ==
    (enabled # <<>> /\ subject.status = "new") =>
        /\ TimeOfMonthBefore(subject.endDate) < TimeOf(subject.endDate)
        /\ StartInMonthBefore(subject.endDate)

\* C19 amended: the computed start is exactly as many days before the end as
\* the month preceding the end date's month has, so it is strictly earlier and
\* the window is not empty; it lies in that preceding month exactly when the
\* end date's day of the month exists in it, and otherwise in the end date's
\* own month.
C19_StartOneMonthLengthBefore ==
    (enabled # <<>> /\ subject.status = "new") =>
        LET d == subject.endDate
            start == TimeOfMonthBefore(d)
            end == TimeOf(d)
        IN  /\ start = end - DaysOfMonthBefore(d) * TicksPerDay
            /\ start < end
            /\ StartInMonthBefore(d) <=> d.date <= DaysOfMonthBefore(d)
            /\ ~StartInMonthBefore(d) =>
                  /\ StartOfDay(d.year, d.month, 1) <= start
                  /\ start < end
            /\ (now = start \/ now = end) => enabled = <<TRUE>>

\* C19 witness: a 'new' row of a cycle ending on 31 March rendered eligible at
\* the start of its window, which lies in March.
C19_Witness ==
    /\ subject.status = "new"
    /\ subject.endDate.month = 2
    /\ subject.endDate.date = 31
    /\ now = TimeOfMonthBefore(subject.endDate)
    /\ now >= StartOfDay(subject.endDate.year, 2, 1)
    /\ enabled = <<TRUE>>

-----------------------------------------------------------------------------
(* The HOD table with several fetches in flight *)

\* The table the handler reads while the component is open: the three
\* instructors of department 1, who differ in status and cycle.
DepartmentTable ==
    [i \in 1..3 |-> CHOOSE r \in AppraisalRows : r.id = i]

\* A fetch the component has sent and not yet heard of.
Pending(params) == [params |-> params, settled |-> FALSE]

\* The values a filter change can set: any status, either search text, and,
\* once an answer has brought the list of cycles, one of these.
FilterChanges(filters, sent) ==
    {[filters EXCEPT !.status = st] : st \in {"", "new", "complete"}}
      \cup {[filters EXCEPT !.search = se] : se \in {<<>>, <<"a", "L">>}}
      \cup IF \E i \in 1..Len(sent) : sent[i].settled
           THEN {[filters EXCEPT !.cycleId = <<Digits[CyclesTable[c].id + 1]>>] :
                    c \in 1..Len(CyclesTable)}
           ELSE {}

\* handleFilterChange with a value that differs, and the effect it triggers:
\* fetchData up to its await, with the parameters built from the filters.
\* Nothing is cancelled.  While no cycle is selected one fetch is kept in
\* reserve for the selection of the active cycle.
ChangeFilter ==
    /\ pc = "mounted"
    /\ Len(fetches) + (IF query.cycleId = <<>> THEN 1 ELSE 0) < MaxFetches
    /\ \E filters \in FilterChanges(query, fetches) \ {query} :
         /\ query' = filters
         /\ fetches' = Append(fetches, Pending(filters))
    /\ loading' = TRUE
    /\ error' = FALSE
    /\ UNCHANGED <<pc, session, appraisals, response, renormalized, data, rows,
                   subject, now, enabled, passwordHash, request>>

\* The answer to any fetch in flight arrives and fetchData resumes after its
\* await with the filters it was started with: it stores the answer, selects
\* the active cycle if it was started without a cycle, and clears loading; a
\* cycle filter that changed by this starts the next fetch.
Settle ==
    /\ pc = "mounted"
    /\ \E i \in 1..Len(fetches) :
         /\ ~fetches[i].settled
         /\ LET answer == Handle(session, fetches[i].params, appraisals)
                active == ActiveCycleId(answer.cycles)
                filters ==
                    IF /\ answer.status = 200
                       /\ fetches[i].params.cycleId = <<>>
                       /\ active # <<>>
                    THEN [query EXCEPT !.cycleId = active]
                    ELSE query
                heard == [fetches EXCEPT ![i].settled = TRUE]
            IN  /\ response' = answer
                /\ data' = IF answer.status = 200
                           THEN [k \in 1..Len(answer.appraisals) |->
                                    AppraisalWithEval(answer.appraisals[k])]
                           ELSE data
                /\ query' = filters
                /\ fetches' = IF filters # query
                              THEN Append(heard, Pending(filters))
                              ELSE heard
                /\ loading' = (filters # query)
                /\ error' = IF filters # query THEN FALSE
                            ELSE IF answer.status # 200 THEN TRUE
                            ELSE error
    /\ UNCHANGED <<pc, session, appraisals, renormalized, rows,
                   subject, now, enabled, passwordHash, request>>

\* The component of the head of department 1 has mounted: no filter is set
\* and the effect has sent the first fetch.
InitRace ==
    /\ pc = "mounted"
    /\ session = [email |-> "hod@uob"]
    /\ query = NoQuery
    /\ appraisals = DepartmentTable
    /\ response = NoResponse
    /\ renormalized = <<>>
    /\ data = <<>>
    /\ rows = <<>>
    /\ subject = NoSubject
    /\ now = 0
    /\ enabled = <<>>
    /\ passwordHash = StoredHashes
    /\ request = NoRequest
    /\ loading = TRUE
    /\ error = FALSE
    /\ fetches = <<Pending(NoQuery)>>

NextRace == ChangeFilter \/ Settle

SpecRace == InitRace /\ [][NextRace]_vars

-----------------------------------------------------------------------------
(* Properties of the HOD table's flow, checked under SpecHod *)

CategoryFields ==
    {"researchPts", "universityServicePts", "communityServicePts",
     "teachingQualityPts"}

\* The table holds what fetchData made of the answer at hand.
Loaded == pc \in {"loaded", "exported"} /\ Len(data) = Len(response.appraisals)

\* C12 as stated: where the latest evaluation of an appraisal exists and lacks
\* a category point or the total score, that field is 0 in the evaluation the
\* handler answers and in the one the table holds.
C12_MissingFieldIsZero ==
    response.status = 200 =>
        \A i \in 1..Len(response.appraisals) :
            LET v == response.appraisals[i]
                stored == TableRow(v.id).evaluations
            IN  stored # <<>> =>
                    \A f \in CategoryFields \cup {"totalScore"} :
                        NewestOf(stored)[f] = <<>> =>
                            /\ v.evaluation[f] = <<0>>
                            /\ Loaded => data[i].evaluation[1][f] = <<0>>

\* C12 amended: the handler answers a missing category point or total score
\* of an existing latest evaluation as null; fetchData of the HOD table stores
\* 0 for a missing category point and, for a missing total score, the
\* appraisal's own total score or 0 when that is missing too, so the table
\* holds no null; exportCSV writes 0 for a missing category point; a request
\* of a head of department with well-formed parameters fails at no step.
C12_MissingFieldZeroInTable ==
    /\ response.status = 200 =>
          \A i \in 1..Len(response.appraisals) :
              LET v == response.appraisals[i]
                  row == TableRow(v.id)
              IN  row.evaluations # <<>> =>
                      LET newest == NewestOf(row.evaluations)
                      IN  /\ \A f \in CategoryFields \cup {"totalScore"} :
                                newest[f] = <<>> => v.evaluation[f] = <<>>
                          /\ Loaded =>
                                LET held == data[i].evaluation[1]
                                IN  /\ \A f \in CategoryFields :
                                          /\ held[f] # <<>>
                                          /\ newest[f] = <<>> => held[f] = <<0>>
                                    /\ held.totalScore # <<>>
                                    /\ newest.totalScore = <<>> =>
                                          held.totalScore =
                                              IF row.totalScore = <<>> THEN <<0>>
                                              ELSE row.totalScore
                          /\ (Loaded /\ pc = "exported") =>
                                /\ newest.researchPts = <<>> =>
                                      Cell(rows[i], "Research & Scientific Activities ") = 0
                                /\ newest.universityServicePts = <<>> =>
                                      Cell(rows[i], "University Service ") = 0
                                /\ newest.communityServicePts = <<>> =>
                                      Cell(rows[i], "Community Service ") = 0
                                /\ newest.teachingQualityPts = <<>> =>
                                      Cell(rows[i], "Quality of Teaching ") = 0
    /\ (session.email = "hod@uob" /\ ~WhereClauseRejected(query)) =>
          /\ pc # "failed"
          /\ response.status \in {0, 200}

\* C12 witness: an appraisal with total score 7 whose latest evaluation lacks
\* the research points and the total score has been answered with both null,
\* stored with 0 and 7, and exported.
C12_Witness ==
    /\ pc = "exported"
    /\ Len(response.appraisals) = 1
    /\ LET row == TableRow(response.appraisals[1].id)
       IN  /\ row.totalScore = <<7>>
           /\ Len(row.evaluations) = 1
           /\ row.evaluations[1].researchPts = <<>>
           /\ row.evaluations[1].totalScore = <<>>
    /\ response.appraisals[1].evaluation.researchPts = <<>>
    /\ data[1].evaluation[1].researchPts = <<0>>
    /\ data[1].evaluation[1].totalScore = <<7>>
    /\ Cell(rows[1], "Research & Scientific Activities ") = 0

-----------------------------------------------------------------------------
(* Properties of the handler's checks of caller and parameters, under SpecGet *)

\* The users a session's email names.
CallerOf(sess) == {u \in Users : u.email = sess.email}

\* C13 as stated: a request whose session has no email, whose user does not
\* exist, whose user is no HOD or whose user has no department is answered
\* with a rejection, not a success, and with no appraisal records.
C13_UnscopedCallerRejected ==
    pc = "responded" =>
        ((\/ session.email = ""
          \/ CallerOf(session) = {}
          \/ \E u \in CallerOf(session) : u.role # "HOD" \/ u.departmentId = 0)
            => /\ response.status # 200
               /\ ~response.json
               /\ response.appraisals = <<>>)

\* C13 amended: a request whose session has no email, whose user does not
\* exist or whose user is no HOD is rejected with status 401; a HOD without
\* department is answered with a success holding an empty appraisal list and
\* an empty cycle list; none of the four is answered any appraisal record.
C13_UnscopedCallerGetsNoRecords ==
    pc = "responded" =>
        /\ (\/ session.email = ""
            \/ CallerOf(session) = {}
            \/ \E u \in CallerOf(session) : u.role # "HOD")
              => /\ response.status = 401
                 /\ ~response.json
                 /\ response.appraisals = <<>>
        /\ (\E u \in CallerOf(session) : u.role = "HOD" /\ u.departmentId = 0)
              => /\ response.status = 200
                 /\ response.json
                 /\ response.appraisals = <<>>
                 /\ response.cycles = <<>>

\* C13 witness: a HOD without department has been answered a success with
\* empty lists while the table holds appraisals.
C13_Witness ==
    /\ pc = "responded"
    /\ session.email = "hod0@uob"
    /\ Len(appraisals) > 0
    /\ response.status = 200
    /\ response.appraisals = <<>>

\* The string is a decimal number.
AllDigits(s) == s # <<>> /\ \A i \in 1..Len(s) : IsDigit(s[i])

\* C14 as stated: a request of a HOD with a department whose cycleId is no
\* number or whose status is none of new, in_progress, complete, sent is
\* answered a success with empty or default (unfiltered) results, not a
\* failure status.
C14_MalformedFilterFailsClosed ==
    (/\ pc = "responded"
     /\ \E u \in CallerOf(session) : u.role = "HOD" /\ u.departmentId # 0
     /\ \/ query.cycleId # <<>> /\ ~AllDigits(query.cycleId)
        \/ query.status # "" /\ query.status \notin EvaluationStatus)
        => /\ response.status = 200
           /\ \/ response.appraisals = <<>>
              \/ response = Handle(session, NoQuery, appraisals)

-----------------------------------------------------------------------------
(* Properties of the password reset handler, checked under SpecReset *)

\* C15: a reset request whose email is no user's is answered 404 and changes
\* no passwordHash; whatever the request, a passwordHash changes only for the
\* user whose email is the request's, and only when the answer is the success.
C15_ResetChangesOnlyRequestedUser ==
    [][/\ (request'.email # <<>> /\ request'.email[1] \notin DOMAIN passwordHash)
           => /\ response'.status = 404
              /\ passwordHash' = passwordHash
       /\ \A m \in DOMAIN passwordHash :
             passwordHash'[m] # passwordHash[m]
                => /\ request'.email = <<m>>
                   /\ response'.status = 200
                   /\ response' = PasswordUpdated]_vars

\* C15 witness: a reset for hod@uob has succeeded and every other user still
\* has the stored hash.
C15_Witness ==
    /\ request.email = <<"hod@uob">>
    /\ response.status = 200
    /\ passwordHash["hod@uob"] # <<"stored">>
    /\ \A m \in DOMAIN passwordHash \ {"hod@uob"} : passwordHash[m] = <<"stored">>

-----------------------------------------------------------------------------
(* Properties of the listing, checked under SpecList *)

\* The ids of the appraisals of an answer.
IdsOf(list) == {list[i].id : i \in 1..Len(list)}

\* The department of the caller.
CallerDepartment == (CHOOSE u \in CallerOf(session) : TRUE).departmentId

\* C16: the answered list is as long as the list the data layer supplied and
\* its i-th element is the view of the i-th appraisal supplied, with its id;
\* the data layer supplies the matching rows by updatedAt descending.
C16_OrderAndLengthPreserved ==
    (pc = "responded" /\ response.status = 200) =>
        LET supplied == FindManyAppraisals(appraisals, CallerDepartment, query)
        IN  /\ Len(response.appraisals) = Len(supplied)
            /\ \A i \in 1..Len(supplied) :
                  /\ response.appraisals[i].id = supplied[i].id
                  /\ response.appraisals[i] = AppraisalView(supplied[i])
            /\ \A i, j \in 1..Len(response.appraisals) :
                  i < j => response.appraisals[i].updatedAt
                              > response.appraisals[j].updatedAt

\* C16 witness: three appraisals stored in another order than supplied have
\* been answered.
C16_Witness ==
    /\ pc = "responded"
    /\ Len(response.appraisals) = 3
    /\ Len(appraisals) = 3
    /\ appraisals[1].id # response.appraisals[1].id
    /\ appraisals[3].id # response.appraisals[3].id

\* The query without one of its filters.
Widened(q) ==
    {[q EXCEPT !.cycleId = <<>>], [q EXCEPT !.status = ""],
     [q EXCEPT !.search = <<>>]}

\* C18: every appraisal answered to a head of department is of a faculty
\* member of the caller's department whose role is INSTRUCTOR, under every
\* combination of filters; and the appraisals answered under a query are
\* among those answered under the same query without any one of its filters.
C18_ScopedToDepartment ==
    (pc = "responded" /\ response.status = 200) =>
        /\ \A i \in 1..Len(response.appraisals) :
              /\ response.appraisals[i].faculty.departmentId = CallerDepartment
              /\ response.appraisals[i].faculty.role = "INSTRUCTOR"
        /\ \A q \in Widened(query) :
              IdsOf(response.appraisals)
                  \subseteq IdsOf(Handle(session, q, appraisals).appraisals)
        /\ IdsOf(response.appraisals) \subseteq
              {appraisals[i].id : i \in
                  {j \in 1..Len(appraisals) :
                      /\ appraisals[j].faculty.departmentId = CallerDepartment
                      /\ appraisals[j].faculty.role = "INSTRUCTOR"}}

\* C18 witness: a search that matches the names of an instructor of another
\* department and of a member who is no instructor has been answered with
\* the caller's instructor only.
C18_Witness ==
    /\ pc = "responded"
    /\ query.search = <<"a", "L">>
    /\ \E i \in 1..Len(appraisals) : appraisals[i].id = 4
    /\ \E i \in 1..Len(appraisals) : appraisals[i].id = 5
    /\ IdsOf(response.appraisals) = {2}

-----------------------------------------------------------------------------
(* Properties of the export's column keys, checked under SpecExport *)

\* The keys of a row in their order.
KeysOf(row) == [k \in 1..Len(row) |-> row[k].key]

\* C17 as stated: every exported row has exactly these keys in this order,
\* character for character.
C17_KeysAsListed ==
    pc = "exported" =>
        \A i \in 1..Len(rows) :
            KeysOf(rows[i]) =
                <<"Instructor", "Research & Scientific Activities",
                  "University Service", "Community Service", "Quality of Teaching",
                  "Total Performance (out of 100)", "Total Performance (out of 3)",
                  "Institutional Commitment", "Collaboration & Teamwork",
                  "Professionalism", "Client Service", "Achieving Results",
                  "Total Capabilities (out of 100)", "Total Capabilities (out of 7)",
                  "Overall Total (out of 5)">>

\* C17 amended: every exported row has exactly these fifteen keys in this
\* order, character for character: the four category keys and the five
\* capacity keys end in one blank, and the raw capabilities total has a blank
\* after its opening parenthesis.
C17_KeysAsWritten ==
    pc = "exported" =>
        \A i \in 1..Len(rows) :
            KeysOf(rows[i]) =
                <<"Instructor", "Research & Scientific Activities ",
                  "University Service ", "Community Service ", "Quality of Teaching ",
                  "Total Performance (out of 100)", "Total Performance (out of 3)",
                  "Institutional Commitment ", "Collaboration & Teamwork ",
                  "Professionalism ", "Client Service ", "Achieving Results ",
                  "Total Capabilities ( out of 100)", "Total Capabilities (out of 7)",
                  "Overall Total (out of 5)">>

\* C17 witness: a row of fifteen keys has been exported whose second key ends
\* in a blank.
C17_Witness ==
    /\ pc = "exported"
    /\ Len(rows) = 1
    /\ Len(rows[1]) = 15
    /\ rows[1][2].key = "Research & Scientific Activities "

-----------------------------------------------------------------------------
(* The handler's normalization against the export's lookup, under SpecTables *)

\* The HOD table has exported what it fetched.
HodExported == pc = "exported" /\ response.status = 200 /\ Len(rows) = Len(data)

\* The Dean table has exported the ratings it holds as received.
DirectExported == pc = "exported" /\ response.status = 0 /\ Len(rows) = 1

\* The ratings the Dean table holds for its appraisal.
HeldRatings == data[1].evaluation[1].behaviorRatings[1]

\* The five points the handler's matching gives a rating list.
MatchedPoints(ratings) ==
    [k \in 1..5 |-> NormalizedRatings(ratings)[k].points]

\* The points of the first rating of the list labelled exactly with the k-th
\* canonical capacity, 0 when there is none.
ExactPoints(ratings, k) ==
    LET hits == {i \in 1..Len(ratings) : ratings[i].capacity = ExpectedCapacities[k]}
    IN  IF hits = {} THEN 0
        ELSE ratings[CHOOSE i \in hits : \A j \in hits : i <= j].points

AllCanonical(ratings) ==
    \A i \in 1..Len(ratings) :
        \E k \in 1..5 : ratings[i].capacity = ExpectedCapacities[k]

\* In the HOD flow the five capacity cells of every row are the five points
\* the handler answered, and the raw capabilities total is their sum.
HodCellsAreNormalized ==
    HodExported =>
        \A i \in 1..Len(rows) :
            LET given == response.appraisals[i].evaluation.behaviorRatings
                stored == TableRow(response.appraisals[i].id).evaluations
                cells == CapacityCells(rows[i])
            IN  /\ \A k \in 1..5 : cells[k] = given[k].points
                /\ stored # <<>> =>
                      cells = MatchedPoints(NewestOf(stored).behaviorRatings)
                /\ Cell(rows[i], "Total Capabilities ( out of 100)") =
                      given[1].points + given[2].points + given[3].points
                        + given[4].points + given[5].points

\* C20 as stated: in the HOD flow the exported capacity values are the
\* normalized points and the raw capabilities total is their sum; exportCSV
\* applied to a rating list as received gives the values the handler's
\* matching gives only if every label of the list is exactly canonical.
C20_DirectSameOnlyIfCanonical ==
    /\ HodCellsAreNormalized
    /\ DirectExported =>
          (CapacityCells(rows[1]) = MatchedPoints(HeldRatings)
              => AllCanonical(HeldRatings))

\* C20 amended: in the HOD flow the exported capacity values are the
\* normalized points and the raw capabilities total is their sum.  exportCSV
\* applied to a rating list as received writes for each capacity the points
\* of the first rating labelled exactly with it, or 0: these are the values
\* of the handler's matching whenever every label is exactly canonical, and
\* also for lists with other labels when no such rating is the first match of
\* a keyword with other points (a label matching no keyword changes nothing);
\* a single rating with non-zero points whose label holds a keyword without
\* being canonical is exported as 0 where the handler gives its points.
C20_DirectSameWhenCanonical ==
    /\ HodCellsAreNormalized
    /\ DirectExported =>
          LET cells == CapacityCells(rows[1])
              matched == MatchedPoints(HeldRatings)
          IN  /\ \A k \in 1..5 : cells[k] = ExactPoints(HeldRatings, k)
              /\ AllCanonical(HeldRatings) => cells = matched
              /\ (Len(HeldRatings) = 1 /\ ~AllCanonical(HeldRatings)) =>
                    /\ cells = <<0, 0, 0, 0, 0>>
                    /\ cells = matched <=> KeywordsIn(HeldRatings[1].capacity) = {}

\* C20 witness: a rating labelled CLIENT SERVICE in upper case with 2 points
\* has gone through the handler, fetchData and exportCSV of the HOD table and
\* is exported under Client Service with 2.
C20_Witness ==
    /\ HodExported
    /\ Len(rows) = 1
    /\ LET stored == TableRow(response.appraisals[1].id).evaluations
       IN  /\ Len(stored) = 1
           /\ Len(stored[1].behaviorRatings) = 1
           /\ stored[1].behaviorRatings[1].capacity # ClientService
           /\ stored[1].behaviorRatings[1].points = 2
           /\ KeywordsIn(stored[1].behaviorRatings[1].capacity) = {4}
    /\ Cell(rows[1], "Client Service ") = 2

-----------------------------------------------------------------------------
(* Properties of the table with several fetches in flight, under SpecRace *)

\* No fetch is in flight.
Quiescent == \A i \in 1..Len(fetches) : fetches[i].settled

\* What fetchData stores of the answer to the request built from the filters
\* as they are now.
FreshData ==
    LET answer == Handle(session, query, appraisals)
    IN  [k \in 1..Len(answer.appraisals) |-> AppraisalWithEval(answer.appraisals[k])]

\* The table shows the answer to its current filters whenever it is idle, and
\* shows loading as long as it is not.
SettledShowsFresh ==
    /\ Quiescent => (loading = FALSE /\ data = FreshData)
    /\ loading = FALSE => Quiescent

\* C21 as stated: under every interleaving of the answers to the fetches sent
\* on filter changes and on the selection of the active cycle, whenever no
\* fetch is in flight loading is false and the list shown is the answer to
\* the request built from the current filters; loading is never false while
\* a fetch is in flight; and the answer to a request sent before one that has
\* already been answered does not replace the data.
C21_NoStaleData ==
    /\ []SettledShowsFresh
    /\ [][\A i \in 1..Len(fetches) :
             (/\ ~fetches[i].settled
              /\ fetches'[i].settled
              /\ \E j \in (i + 1)..Len(fetches) : fetches[j].settled)
                => data' = data]_vars

=============================================================================
